---- MODULE Spec2Model ----
(***************************************************************************)
(* Model of static/py/BrettControllers/robot_entity.py: the RobotEntity    *)
(* class (pose, goal, the goal-to-command decision and its dispatch).      *)
(*                                                                         *)
(* Number representation.  The source is Python 2 (print statements), so   *)
(* `45 / 2` is integer division.  Distances and angles are floats in the   *)
(* source; the model keeps, for each float, its ORDINAL with respect to    *)
(* the grid the code compares it against:                                  *)
(*   - an angle of a degrees is kept as 4a when 2a is an integer, and as   *)
(*     2*floor(2a)+1 otherwise (strictly between two half degrees), so     *)
(*     that a < b, a + c and -a on ordinals agree with the floats for      *)
(*     every c, b that is a multiple of half a degree;                     *)
(*   - a distance d is kept as 2d when d is an integer and as              *)
(*     2*floor(d)+1 otherwise.                                             *)
(* Coordinates are integers; headings are multiples of half a degree.      *)
(***************************************************************************)
EXTENDS Integers, Sequences, FiniteSets, TLC

\* coords, goal: self.coords and self.goal of every robot.
\* published: the messages handed to the publishers, in order.
\* returnedTrue: how many move() calls have returned True.
\* lastCall: the most recent call that completed.
\* frame: the move() call in progress, when its steps are followed one by one.
VARIABLES coords, goal, published, returnedTrue, lastCall, frame

vars == <<coords, goal, published, returnedTrue, lastCall, frame>>

(***************************************************************************)
(* Bounds of the model.                                                    *)
(***************************************************************************)
NumRobots == 2
MaxGoal == 10
MaxPose == 1
MaxPublished == 2

(***************************************************************************)
(* Python's None.  Poses and goals are 3-tuples, so None is a value of a   *)
(* different length and never equal to one of them.                        *)
(***************************************************************************)
None == <<"None">>

\* An angle given in whole degrees, as an ordinal.
Deg(d) == 4 * d

\* An angle given in half degrees, as an ordinal.
HalfDeg(h) == 2 * h

chair_ids == 0..19

pub_motion_arr == [x \in chair_ids |-> <<"/requestMotion0", x>>]

pub_stop_arr == [x \in chair_ids |-> <<"/requestStop0", x>>]

\* The identifiers of the robots constructed; one of them is 4.
RobotIds == 3..(3 + NumRobots - 1)

(***************************************************************************)
(* math.sqrt and math.atan2 on integer arguments.                          *)
(***************************************************************************)
RECURSIVE isqrtFrom(_, _)
isqrtFrom(n, k) == IF (k + 1) * (k + 1) > n THEN k ELSE isqrtFrom(n, k + 1)

\* sqrt(n) as a distance ordinal: 2*sqrt(n) for a perfect square, else
\* 2*floor(sqrt(n))+1.
sqrt(n) ==
    LET k == isqrtFrom(n, 0)
    IN  IF k * k = n THEN 2 * k ELSE 2 * k + 1

\* floor(tan(k/2 degrees) * 10^5) for k = 1..179.
TanTable ==
    <<
       872, 1745, 2618, 3492, 4366, 5240, 6116, 6992,
       7870, 8748, 9628, 10510, 11393, 12278, 13165, 14054,
       14945, 15838, 16734, 17632, 18533, 19438, 20345, 21255,
       22169, 23086, 24007, 24932, 25861, 26794, 27732, 28674,
       29621, 30573, 31529, 32491, 33459, 34432, 35411, 36397,
       37388, 38386, 39391, 40402, 41421, 42447, 43481, 44522,
       45572, 46630, 47697, 48773, 49858, 50952, 52056, 53170,
       54295, 55430, 56577, 57735, 58904, 60086, 61280, 62486,
       63707, 64940, 66188, 67450, 68728, 70020, 71329, 72654,
       73996, 75355, 76732, 78128, 79543, 80978, 82433, 83909,
       85408, 86928, 88472, 90040, 91633, 93251, 94896, 96568,
       98269, 99999, 101760, 103553, 105378, 107236, 109130, 111061,
       113029, 115036, 117084, 119175, 121309, 123489, 125717, 127994,
       130322, 132704, 135142, 137638, 140194, 142814, 145500, 148256,
       151083, 153986, 156968, 160033, 163185, 166427, 169766, 173205,
       176749, 180404, 184177, 188072, 192098, 196261, 200568, 205030,
       209654, 214450, 219429, 224603, 229984, 235585, 241421, 247508,
       253864, 260508, 267462, 274747, 282391, 290421, 298868, 307768,
       317159, 327085, 337594, 348741, 360588, 373205, 386671, 401078,
       416529, 433147, 451070, 470463, 491515, 514455, 539551, 567128,
       597576, 631375, 669115, 711536, 759575, 814434, 877688, 951436,
       1038539, 1143005, 1270620, 1430066, 1634985, 1908113, 2290376, 2863625,
       3818845, 5728996, 11458865
    >>

TanScale == 10 ^ 5

\* atan(ady/adx) in degrees as an angle ordinal, for ady, adx >= 0 not both 0.
\* tan of a half-degree multiple is rational only at 0 and 45 degrees, so the
\* angle is exact only on the axes and on the diagonal.
atanByTable(ady, adx) ==
    IF ady = 0 THEN Deg(0)
    ELSE IF adx = 0 THEN Deg(90)
    ELSE IF ady = adx THEN Deg(45)
    ELSE 2 * Cardinality({k \in 1..179 : TanTable[k] * adx < ady * TanScale}) + 1

\* The largest coordinate difference between a pose and a goal of the grids.
MaxDiff == MaxGoal + MaxPose

\* atanByTable on the differences of the grids, computed once.
atanOfGrid == [ady \in 0..MaxDiff, adx \in 0..MaxDiff |-> atanByTable(ady, adx)]

atanQuadrant(ady, adx) ==
    IF ady <= MaxDiff /\ adx <= MaxDiff THEN atanOfGrid[ady, adx] ELSE atanByTable(ady, adx)

\* math.atan2(y, x) converted to degrees (theta * 180 / pi), in [-180, 180],
\* as an angle ordinal.  Integer arguments never give a negative zero, so
\* atan2(0, x) for x < 0 is +pi.
atan2(y, x) ==
    IF y = 0 /\ x = 0 THEN Deg(0)
    ELSE IF y >= 0 /\ x > 0 THEN atanQuadrant(y, x)
    ELSE IF y > 0 /\ x <= 0 THEN Deg(180) - atanQuadrant(y, -x)
    ELSE IF y = 0 /\ x < 0 THEN Deg(180)
    ELSE IF y < 0 /\ x < 0 THEN -(Deg(180) - atanQuadrant(-y, -x))
    ELSE -atanQuadrant(-y, x)

(***************************************************************************)
(* robot_command.CommandClass: the command names and what dispatch needs   *)
(* of them.                                                                *)
(***************************************************************************)
CommandClass(name) == name

isNothing(command) == command = "None"

CommandMessage(command) ==
    CASE command = "Stop" -> "stop"
      [] command = "Forward" -> "forward"
      [] command = "Left" -> "left"
      [] command = "Right" -> "right"
      [] OTHER -> "none"

(***************************************************************************)
(* RobotEntity: the decision functions.  c is self.coords, g is self.goal. *)
(***************************************************************************)
\* Python truthiness of a tuple-or-None field (`if not self.goal`).
Truthy(v) == v # None /\ v # <<>>

_calculateDistanceToGoal(c, g) ==
    LET goalx == g[1]
        goaly == g[2]
        currx == c[1]
        curry == c[2]
        xcube == (goalx - currx) * (goalx - currx)
        ycube == (goaly - curry) * (goaly - curry)
    IN  sqrt(xcube + ycube)

\* Variant: the bearing without the +180 shift.
calculateAngleToGoal_noOffset(c, g) ==
    atan2(g[2] - c[2], g[1] - c[1])

_calculateAngleToGoal(c, g) ==
    LET goalx == g[1]
        goaly == g[2]
        currx == c[1]
        curry == c[2]
        diffx == goalx - currx
        diffy == goaly - curry
        theta == atan2(diffy, diffx)
    IN  theta + Deg(180)

distTolerance == 10

\* Python 2: 45 / 2 is integer division.
angleTolerance == 45 \div 2

\* Variant: arrival when the distance equals the tolerance.
decideCommand_distInclusive(dist, goalAngle, currAngle) ==
    IF dist <= 2 * distTolerance THEN CommandClass("Stop")
    ELSE IF goalAngle + Deg(angleTolerance) > currAngle
            /\ goalAngle - Deg(angleTolerance) < currAngle
         THEN CommandClass("Forward")
    ELSE IF goalAngle < currAngle THEN CommandClass("Right")
    ELSE CommandClass("Left")

\* Variant: the angle test with >= and <=.
decideCommand_angleInclusive(dist, goalAngle, currAngle) ==
    IF dist < 2 * distTolerance THEN CommandClass("Stop")
    ELSE IF goalAngle + Deg(angleTolerance) >= currAngle
            /\ goalAngle - Deg(angleTolerance) <= currAngle
         THEN CommandClass("Forward")
    ELSE IF goalAngle < currAngle THEN CommandClass("Right")
    ELSE CommandClass("Left")

\* Variant: the angle difference taken modulo 360 degrees, in [-180, 180).
decideCommand_wraparound(dist, goalAngle, currAngle) ==
    LET diff == ((goalAngle - currAngle + Deg(180)) % Deg(360)) - Deg(180)
    IN  IF dist < 2 * distTolerance THEN CommandClass("Stop")
        ELSE IF diff > -Deg(angleTolerance) /\ diff < Deg(angleTolerance)
             THEN CommandClass("Forward")
        ELSE IF diff < 0 THEN CommandClass("Right")
        ELSE CommandClass("Left")

\* The decision once the three floats are known.
decideCommand(dist, goalAngle, currAngle) ==
    IF dist < 2 * distTolerance THEN CommandClass("Stop")
    ELSE IF goalAngle + Deg(angleTolerance) > currAngle
            /\ goalAngle - Deg(angleTolerance) < currAngle
         THEN CommandClass("Forward")
    ELSE IF goalAngle < currAngle THEN CommandClass("Right")
    ELSE CommandClass("Left")

generateCommand(c, g) ==
    decideCommand(_calculateDistanceToGoal(c, g), _calculateAngleToGoal(c, g), c[3])

\* The record of one publish: which array, which index, which message.
sendCommand(robotId, command) ==
    LET id == 4
        message == CommandMessage(command)
    IN  IF message = "stop"
        THEN [arr |-> "pub_stop_arr", id |-> id, message |-> message]
        ELSE [arr |-> "pub_motion_arr", id |-> id, message |-> message]

(***************************************************************************)
(* Inputs.                                                                 *)
(***************************************************************************)
\* Goals on the integer grid; the third component is carried, never read.
GoalGrid == {<<x, y, 0>> : x \in (-MaxGoal)..MaxGoal, y \in (-MaxGoal)..MaxGoal}

\* Headings around every multiple of 45 degrees, at and next to the angle
\* tolerance, and 1 degree.
Headings ==
    {h \in {Deg(45 * k) + o : k \in 0..8, o \in {-Deg(23), -HalfDeg(45), -Deg(22), 0,
                                                   Deg(22), HalfDeg(45), Deg(23)}} :
        h >= Deg(0) /\ h <= Deg(360)} \cup {Deg(1)}

PoseGrid == {<<x, y, h>> : x \in 0..MaxPose, y \in 0..MaxPose, h \in Headings}

\* The poses and goals the callers pass after construction.
CoordsInputs == {<<0, 0, Deg(0)>>, <<0, 0, Deg(180)>>}

GoalInputs == {<<0, 0, 0>>, <<100, 0, 0>>, <<0, -100, 0>>}

(***************************************************************************)
(* State.                                                                  *)
(***************************************************************************)
\* No move() is in progress.
IdleFrame == [pc |-> "idle", robotId |-> 0, g |-> None, c |-> None,
              dist |-> 0, goalAngle |-> 0, held |-> {}]

\* What the most recent call was and how it ended.  held is, for every
\* (coords, goal) pair the robot held while a move() ran, how a move() run
\* to completion on that pair ends (moveOutcome).
Call(op, r, newGoal, result, command, held) ==
    [op |-> op, robotId |-> r, newGoal |-> newGoal, result |-> result,
     command |-> command, held |-> held]

\* The goal move() works on: line 200-202.
goalAfterAssign(g, newGoal) == IF newGoal # None THEN newGoal ELSE g

\* Variant: the coordinates are checked before the goal.
moveOutcome_coordsFirst(c, g) ==
    IF ~Truthy(c) THEN [result |-> "SystemError", command |-> "None"]
    ELSE IF ~Truthy(g) THEN [result |-> "False", command |-> "None"]
    ELSE [result |-> "True", command |-> generateCommand(c, g)]

\* Variant: the coordinates are not checked; unpacking None raises TypeError.
moveOutcome_noCoordsCheck(c, g) ==
    IF ~Truthy(g) THEN [result |-> "False", command |-> "None"]
    ELSE IF ~Truthy(c) THEN [result |-> "TypeError", command |-> "None"]
    ELSE [result |-> "True", command |-> generateCommand(c, g)]

\* move() run to completion on coords c and goal g (after the assignment of
\* newGoal): how it ends and the command it computed.
moveOutcome(c, g) ==
    IF ~Truthy(g) THEN [result |-> "False", command |-> "None"]
    ELSE IF ~Truthy(c) THEN [result |-> "SystemError", command |-> "None"]
    ELSE LET command == generateCommand(c, g)
         IN  IF isNothing(command) THEN [result |-> "False", command |-> command]
             ELSE [result |-> "True", command |-> command]

\* A move() in progress on the robot sees the robot change.
Observe(f, c2, g2) ==
    IF f.pc = "idle" THEN f
    ELSE [f EXCEPT !.held = @ \cup {moveOutcome(c2[f.robotId], g2[f.robotId])}]

\* RobotEntity(robotId): coords and goal default to None.
Init ==
    /\ coords = [r \in RobotIds |-> None]
    /\ goal = [r \in RobotIds |-> None]
    /\ published = <<>>
    /\ returnedTrue = 0
    /\ lastCall = Call("__init__", 0, None, "None", "None", {})
    /\ frame = IdleFrame

\* RobotEntity(robotId, coords, goal) for the first robot, defaults for the rest.
InitPolicy ==
    /\ \E c \in PoseGrid \cup {None} : coords = [r \in RobotIds |-> IF r = 3 THEN c ELSE None]
    /\ \E g \in GoalGrid \cup {None} : goal = [r \in RobotIds |-> IF r = 3 THEN g ELSE None]
    /\ published = <<>>
    /\ returnedTrue = 0
    /\ lastCall = Call("__init__", 0, None, "None", "None", {})
    /\ frame = IdleFrame

(***************************************************************************)
(* Operations, one call at a time.                                         *)
(***************************************************************************)
updateCoords(r, newCoords) ==
    /\ coords' = [coords EXCEPT ![r] = newCoords]
    /\ lastCall' = Call("updateCoords", r, None, "None", "None", {})
    /\ frame' = Observe(frame, coords', goal)
    /\ UNCHANGED <<goal, published, returnedTrue>>

updateGoal(r, newGoal) ==
    /\ goal' = [goal EXCEPT ![r] = newGoal]
    /\ lastCall' = Call("updateGoal", r, None, "None", "None", {})
    /\ frame' = Observe(frame, coords, goal')
    /\ UNCHANGED <<coords, published, returnedTrue>>

clearGoal(r) ==
    /\ goal' = [goal EXCEPT ![r] = None]
    /\ lastCall' = Call("clearGoal", r, None, "None", "None", {})
    /\ frame' = Observe(frame, coords, goal')
    /\ UNCHANGED <<coords, published, returnedTrue>>

\* Variant: a robot without a goal is sent Stop, and move() still returns False.
move_sendWithoutGoal(r, newGoal) ==
    /\ frame.pc = "idle"
    /\ goal' = [goal EXCEPT ![r] = goalAfterAssign(goal[r], newGoal)]
    /\ LET out == moveOutcome(coords[r], goal'[r])
       IN  /\ out.result \in {"True", "False"} => Len(published) < MaxPublished
           /\ published' = IF out.result = "True"
                           THEN Append(published, sendCommand(r, out.command))
                           ELSE IF out.result = "False"
                           THEN Append(published, sendCommand(r, CommandClass("Stop")))
                           ELSE published
           /\ returnedTrue' = IF out.result = "True" THEN returnedTrue + 1 ELSE returnedTrue
           /\ lastCall' = Call("move", r, newGoal, out.result, out.command, {out})
    /\ UNCHANGED <<coords, frame>>

move(r, newGoal) ==
    /\ frame.pc = "idle"
    /\ goal' = [goal EXCEPT ![r] = goalAfterAssign(goal[r], newGoal)]
    /\ LET out == moveOutcome(coords[r], goal'[r])
       IN  /\ out.result = "True" => Len(published) < MaxPublished
           /\ published' = IF out.result = "True"
                           THEN Append(published, sendCommand(r, out.command))
                           ELSE published
           /\ returnedTrue' = IF out.result = "True" THEN returnedTrue + 1 ELSE returnedTrue
           /\ lastCall' = Call("move", r, newGoal, out.result, out.command,
                               {out})
    /\ UNCHANGED <<coords, frame>>

Next ==
    \/ \E r \in RobotIds, newCoords \in CoordsInputs : updateCoords(r, newCoords)
    \/ \E r \in RobotIds, newGoal \in GoalInputs : updateGoal(r, newGoal)
    \/ \E r \in RobotIds : clearGoal(r)
    \/ \E r \in RobotIds, newGoal \in GoalInputs \cup {None} : move(r, newGoal)

Spec == Init /\ [][Next]_vars

\* The decision on every constructed (pose, goal): the robot is constructed,
\* then move() is called and the goal cleared.
NextPolicy ==
    \/ \E r \in RobotIds : move(r, None)
    \/ \E r \in RobotIds : goal[r] # None /\ clearGoal(r)

SpecPolicy == InitPolicy /\ [][NextPolicy]_vars

(***************************************************************************)
(* move() running in one thread while another thread calls updateCoords,   *)
(* updateGoal and clearGoal on the same robots.  The class takes no lock,  *)
(* so every read of self.goal and self.coords is a step of its own; the    *)
(* pc of the frame is the line of the next read.                           *)
(***************************************************************************)
\* move() returns or raises: the frame is dropped.
moveReturn(result, command) ==
    /\ lastCall' = Call("move", frame.robotId, None, result, command, frame.held)
    /\ frame' = IdleFrame

\* Lines 200-202: the call, and the assignment of newGoal.
moveCall(r, newGoal) ==
    /\ frame.pc = "idle"
    /\ Len(published) < MaxPublished
    /\ goal' = [goal EXCEPT ![r] = goalAfterAssign(goal[r], newGoal)]
    /\ frame' = [IdleFrame EXCEPT !.pc = "L205", !.robotId = r,
                                  !.held = {moveOutcome(coords[r], goal'[r])}]
    /\ UNCHANGED <<coords, published, returnedTrue, lastCall>>

\* Line 205: if not self.goal: return False
moveCheckGoal ==
    /\ frame.pc = "L205"
    /\ IF ~Truthy(goal[frame.robotId])
       THEN moveReturn("False", "None")
       ELSE frame' = [frame EXCEPT !.pc = "L208"] /\ UNCHANGED lastCall
    /\ UNCHANGED <<coords, goal, published, returnedTrue>>

\* Line 208: if not self.coords: raise SystemError
moveCheckCoords ==
    /\ frame.pc = "L208"
    /\ IF ~Truthy(coords[frame.robotId])
       THEN moveReturn("SystemError", "None")
       ELSE frame' = [frame EXCEPT !.pc = "L133"] /\ UNCHANGED lastCall
    /\ UNCHANGED <<coords, goal, published, returnedTrue>>

\* Lines 133 and 146: [goalx, goaly, _] = self.goal; unpacking None raises
\* TypeError.
moveReadGoal ==
    /\ frame.pc \in {"L133", "L146"}
    /\ IF goal[frame.robotId] = None
       THEN moveReturn("TypeError", "None")
       ELSE /\ frame' = [frame EXCEPT !.g = goal[frame.robotId],
                                      !.pc = IF @ = "L133" THEN "L134" ELSE "L147"]
            /\ UNCHANGED lastCall
    /\ UNCHANGED <<coords, goal, published, returnedTrue>>

\* Line 134: [currx, curry, _] = self.coords, then lines 137-139 and 165:
\* the distance, and Stop is sent when it is within the tolerance.
moveReadCoordsForDistance ==
    /\ frame.pc = "L134"
    /\ LET c == coords[frame.robotId]
           dist == _calculateDistanceToGoal(c, frame.g)
           command == decideCommand(dist, 0, 0)
       IN  IF command = CommandClass("Stop")
           THEN /\ published' = Append(published, sendCommand(frame.robotId, command))
                /\ returnedTrue' = returnedTrue + 1
                /\ moveReturn("True", command)
           ELSE /\ frame' = [frame EXCEPT !.c = c, !.dist = dist, !.pc = "L146"]
                /\ UNCHANGED <<published, returnedTrue, lastCall>>
    /\ UNCHANGED <<coords, goal>>

\* Line 147: [currx, curry, _] = self.coords, then lines 149-152: the bearing.
moveReadCoordsForAngle ==
    /\ frame.pc = "L147"
    /\ LET c == coords[frame.robotId]
       IN  frame' = [frame EXCEPT !.c = c, !.pc = "L170",
                                  !.goalAngle = _calculateAngleToGoal(c, frame.g)]
    /\ UNCHANGED <<coords, goal, published, returnedTrue, lastCall>>

\* Line 170: [_, _, currAngle] = self.coords, then lines 171-179 and 218-223:
\* the command is chosen and sent.
moveReadHeading ==
    /\ frame.pc = "L170"
    /\ LET currAngle == coords[frame.robotId][3]
           command == decideCommand(frame.dist, frame.goalAngle, currAngle)
       IN  /\ published' = Append(published, sendCommand(frame.robotId, command))
           /\ returnedTrue' = returnedTrue + 1
           /\ moveReturn("True", command)
    /\ UNCHANGED <<coords, goal>>

\* Robots share no state, so the threads are followed on one robot.
NextThreads ==
    \/ \E newCoords \in CoordsInputs : updateCoords(3, newCoords)
    \/ \E newGoal \in GoalInputs : updateGoal(3, newGoal)
    \/ clearGoal(3)
    \/ \E newGoal \in GoalInputs \cup {None} : moveCall(3, newGoal)
    \/ moveCheckGoal
    \/ moveCheckCoords
    \/ moveReadGoal
    \/ moveReadCoordsForDistance
    \/ moveReadCoordsForAngle
    \/ moveReadHeading

SpecThreads == Init /\ [][NextThreads]_vars

(***************************************************************************)
(* Properties.  After a move() has completed and before any other call,    *)
(* lastCall.op = "move" and coords and goal of lastCall.robotId are the    *)
(* ones that move() worked on.                                             *)
(***************************************************************************)
\* The last call was a move() of a robot that has both a pose and a goal.
MovedWithPoseAndGoal ==
    /\ lastCall.op = "move"
    /\ Truthy(coords[lastCall.robotId])
    /\ Truthy(goal[lastCall.robotId])

LastCoords == coords[lastCall.robotId]

LastGoal == goal[lastCall.robotId]

\* The squared Euclidean distance between the last pose and goal.
LastDistSquared ==
    (LastGoal[1] - LastCoords[1]) * (LastGoal[1] - LastCoords[1])
    + (LastGoal[2] - LastCoords[2]) * (LastGoal[2] - LastCoords[2])

\* goalAngle - currAngle of the last pose and goal, as an angle ordinal.
LastAngleDiff == _calculateAngleToGoal(LastCoords, LastGoal) - LastCoords[3]

\* C1: with pose and goal present, move() yields Stop if and only if the
\* Euclidean distance is strictly less than the distance tolerance (10),
\* whatever the heading; a distance of exactly 10 does not give Stop.
C1_StopIffWithinDistance ==
    MovedWithPoseAndGoal =>
        /\ lastCall.result = "True"
        /\ (lastCall.command = "Stop") <=> (LastDistSquared < distTolerance * distTolerance)

\* A move() at distance exactly 10 (a 6-8-10 triangle) that did not stop.
C1_Witness ==
    /\ MovedWithPoseAndGoal
    /\ LastDistSquared = distTolerance * distTolerance
    /\ LastGoal[1] - LastCoords[1] = 6
    /\ lastCall.command # "Stop"

\* C2: a move() without a new goal on a robot whose goal is absent returns
\* False, raises nothing, computes no command and publishes nothing, with or
\* without a pose.
C2_NoGoalNoCommand ==
    [][(/\ lastCall'.op = "move"
        /\ lastCall'.newGoal = None
        /\ ~Truthy(goal[lastCall'.robotId]))
       => (/\ lastCall'.result = "False"
           /\ lastCall'.command = "None"
           /\ published' = published
           /\ returnedTrue' = returnedTrue)]_vars

\* A move() that returned False on a robot without pose and without goal,
\* after something had been published (a goal existed and was cleared).
C2_Witness ==
    /\ lastCall.op = "move"
    /\ lastCall.newGoal = None
    /\ lastCall.result = "False"
    /\ goal[lastCall.robotId] = None
    /\ coords[lastCall.robotId] = None
    /\ Len(published) > 0

\* C3: a move() on a robot that has a goal and no pose raises SystemError and
\* neither computes nor publishes a command.
C3_GoalWithoutPoseRaises ==
    [][(/\ lastCall'.op = "move"
        /\ Truthy(goal[lastCall'.robotId])
        /\ ~Truthy(coords[lastCall'.robotId]))
       => (/\ lastCall'.result = "SystemError"
           /\ lastCall'.command = "None"
           /\ published' = published
           /\ returnedTrue' = returnedTrue)]_vars

\* A move() with no new goal that raised SystemError.
C3_Witness ==
    /\ lastCall.op = "move"
    /\ lastCall.newGoal = None
    /\ lastCall.result = "SystemError"
    /\ Truthy(goal[lastCall.robotId])
    /\ coords[lastCall.robotId] = None

\* C4: a move() that returns True publishes the message of its command
\* exactly once; a move() that returns False or raises, and every other
\* call, publishes nothing; the number of published messages always equals
\* the number of move() calls that returned True.
C4_OnePublishPerTrueMove ==
    /\ [](Len(published) = returnedTrue)
    /\ [][IF lastCall'.op = "move" /\ lastCall'.result = "True"
          THEN /\ lastCall'.command \in {"Stop", "Forward", "Left", "Right"}
               /\ Len(published') = Len(published) + 1
               /\ published'[Len(published')].message = CommandMessage(lastCall'.command)
               /\ returnedTrue' = returnedTrue + 1
          ELSE /\ published' = published
               /\ returnedTrue' = returnedTrue]_vars

\* Two moves returned True, and a later move() returned False.
C4_Witness ==
    /\ lastCall.op = "move"
    /\ lastCall.result = "False"
    /\ returnedTrue = 2
    /\ Len(published) = 2

\* C5 as claimed: when goalAngle - currAngle is exactly +angleTolerance or
\* exactly -angleTolerance (distance >= tolerance), move() yields Forward.
C5_Claimed_BoundaryIsForward ==
    (/\ MovedWithPoseAndGoal
     /\ LastDistSquared >= distTolerance * distTolerance
     /\ LastAngleDiff \in {Deg(angleTolerance), -Deg(angleTolerance)})
    => lastCall.command = "Forward"

\* C5, amended: the angle test is strict.  When goalAngle - currAngle is
\* exactly +angleTolerance, move() yields Left; when it is exactly
\* -angleTolerance, move() yields Right; one half degree inside the boundary
\* it yields Forward.
C5_BoundaryIsTurn ==
    (MovedWithPoseAndGoal /\ LastDistSquared >= distTolerance * distTolerance)
    => /\ LastAngleDiff = Deg(angleTolerance) => lastCall.command = "Left"
       /\ LastAngleDiff = -Deg(angleTolerance) => lastCall.command = "Right"
       /\ LastAngleDiff \in {Deg(angleTolerance) - HalfDeg(1), HalfDeg(1) - Deg(angleTolerance)}
              => lastCall.command = "Forward"

\* A move() with goalAngle - currAngle exactly -angleTolerance that turned right.
C5_Witness ==
    /\ MovedWithPoseAndGoal
    /\ LastDistSquared >= distTolerance * distTolerance
    /\ LastAngleDiff = -Deg(angleTolerance)
    /\ lastCall.command = "Right"

\* C6: the angle tolerance is 22.5 degrees: with distance >= 10 and
\* |goalAngle - currAngle| strictly less than 22.5 degrees (22 degrees, for
\* example), move() yields Forward.
C6_Claimed_ToleranceIsHalfOf45 ==
    (/\ MovedWithPoseAndGoal
     /\ LastDistSquared >= distTolerance * distTolerance
     /\ LastAngleDiff > -HalfDeg(45)
     /\ LastAngleDiff < HalfDeg(45))
    => lastCall.command = "Forward"

\* C7: a command is published to the channel indexed by the identifier of
\* the robot that moved: the stop channel of that robot for Stop, its motion
\* channel for Forward, Left and Right.
C7_Claimed_RoutedByRobotId ==
    (lastCall.op = "move" /\ lastCall.result = "True")
    => /\ published[Len(published)].id = lastCall.robotId
       /\ published[Len(published)].arr =
              IF lastCall.command = "Stop" THEN "pub_stop_arr" ELSE "pub_motion_arr"

\* C8 as claimed: the bearing computed by _calculateAngleToGoal lies in the
\* half-open range [0, 360).
C8_Claimed_BearingBelow360 ==
    (MovedWithPoseAndGoal /\ lastCall.command # "Stop")
    => /\ _calculateAngleToGoal(LastCoords, LastGoal) >= Deg(0)
       /\ _calculateAngleToGoal(LastCoords, LastGoal) < Deg(360)

\* C8, amended: the bearing lies in the closed range [0, 360], and it equals
\* 360 exactly when the goal lies along the negative x direction from the
\* pose (diffy = 0 and diffx < 0).
C8_BearingUpTo360 ==
    (MovedWithPoseAndGoal /\ lastCall.command # "Stop")
    => /\ _calculateAngleToGoal(LastCoords, LastGoal) >= Deg(0)
       /\ _calculateAngleToGoal(LastCoords, LastGoal) <= Deg(360)
       /\ (_calculateAngleToGoal(LastCoords, LastGoal) = Deg(360))
              <=> (LastGoal[2] = LastCoords[2] /\ LastGoal[1] < LastCoords[1])

\* A move() towards a goal along the negative x direction: the bearing is 360.
C8_Witness ==
    /\ MovedWithPoseAndGoal
    /\ lastCall.command # "Stop"
    /\ LastGoal[2] = LastCoords[2]
    /\ LastGoal[1] < LastCoords[1]
    /\ _calculateAngleToGoal(LastCoords, LastGoal) = Deg(360)

\* C9: with distance >= tolerance and the bearing not within the angle
\* tolerance of the heading, goalAngle < currAngle gives Right and otherwise
\* Left, by plain comparison: a bearing of 354 degrees or more with a heading
\* of 1 degree or less gives Left, not Forward.
C9_TurnByPlainComparison ==
    (MovedWithPoseAndGoal /\ LastDistSquared >= distTolerance * distTolerance)
    => /\ (LastAngleDiff >= Deg(angleTolerance) \/ LastAngleDiff <= -Deg(angleTolerance))
              => lastCall.command = IF LastAngleDiff < 0 THEN "Right" ELSE "Left"
       /\ (_calculateAngleToGoal(LastCoords, LastGoal) >= Deg(354) /\ LastCoords[3] <= Deg(1))
              => lastCall.command = "Left"

\* A move() with bearing between 354 and 360 degrees and heading 1 degree
\* that turned left.
C9_Witness ==
    /\ MovedWithPoseAndGoal
    /\ _calculateAngleToGoal(LastCoords, LastGoal) >= Deg(354)
    /\ _calculateAngleToGoal(LastCoords, LastGoal) < Deg(360)
    /\ LastCoords[3] = Deg(1)
    /\ lastCall.command = "Left"

\* C10: a move() interleaved with updateCoords, updateGoal and clearGoal on
\* the same robot ends as a move() run to completion on one (pose, goal) pair
\* the robot held during the call would, and never fails on an absent goal.
C10_Claimed_MoveIsAtomic ==
    lastCall.op = "move"
    => /\ lastCall.result # "TypeError"
       /\ [result |-> lastCall.result, command |-> lastCall.command] \in lastCall.held

====
